---------------------------- MODULE Spec2Model ----------------------------
(***************************************************************************)
(* tb2fst.py: FSTGenerator.  add() aggregates aligned (source, target)     *)
(* tokens of Toolbox records into the frequency table src2tgt2freq, and    *)
(* sfst() serialises that table as an SFST grammar.                        *)
(*                                                                         *)
(* A Python str is a sequence of one-character strings; a Python dict is   *)
(* a sequence of entries in insertion order.                               *)
(***************************************************************************)
EXTENDS Integers, Sequences, FiniteSets, TLC

(***************************************************************************)
(* Bounds of the model.                                                    *)
(***************************************************************************)
\* largest count an entry of the frequency table may reach
MaxFreq == 2
\* freq_cutoff ranges over 0..MaxCutoff
MaxCutoff == 1
\* reduction_window ranges over -1..MaxWindow
MaxWindow == 1

(***************************************************************************)
(* Characters and strings                                                  *)
(***************************************************************************)
\* ord(c) for the characters the model's tokens and the escape table use
ord(c) ==
    CASE c = " "  -> 32
      [] c = "!"  -> 33
      [] c = "&"  -> 38
      [] c = "("  -> 40
      [] c = ")"  -> 41
      [] c = "*"  -> 42
      [] c = ","  -> 44
      [] c = "-"  -> 45
      [] c = "."  -> 46
      [] c = ":"  -> 58
      [] c = "="  -> 61
      [] c = "?"  -> 63
      [] c = "A"  -> 65
      [] c = "B"  -> 66
      [] c = "C"  -> 67
      [] c = "D"  -> 68
      [] c = "["  -> 91
      [] c = "\\" -> 92
      [] c = "]"  -> 93
      [] c = "a"  -> 97
      [] c = "b"  -> 98
      [] c = "c"  -> 99
      [] c = "d"  -> 100
      [] c = "|"  -> 124

\* str.lower() of one character
lowerChar(c) ==
    CASE c = "A" -> "a" [] c = "B" -> "b" [] c = "C" -> "c" [] c = "D" -> "d"
      [] OTHER -> c

\* str.upper() of one character
upperChar(c) ==
    CASE c = "a" -> "A" [] c = "b" -> "B" [] c = "c" -> "C" [] c = "d" -> "D"
      [] OTHER -> c

\* str.lower()
lower(s) == [i \in 1..Len(s) |-> lowerChar(s[i])]

\* str.upper()
upper(s) == [i \in 1..Len(s) |-> upperChar(s[i])]

\* set(s): the characters of a string
chars(s) == {s[i] : i \in 1..Len(s)}

\* Python's s[a:b] for 0 <= a and 0 <= b (an empty string when they cross)
slice(s, a, b) ==
    LET hi == IF b < Len(s) THEN b ELSE Len(s)
    IN  IF a < hi THEN SubSeq(s, a + 1, hi) ELSE <<>>

\* the whitespace str.strip() removes
isspace(c) == c = " "

RECURSIVE lstrip(_)
lstrip(s) == IF s # <<>> /\ isspace(Head(s)) THEN lstrip(Tail(s)) ELSE s

RECURSIVE rstrip(_)
rstrip(s) ==
    IF s # <<>> /\ isspace(s[Len(s)]) THEN rstrip(SubSeq(s, 1, Len(s) - 1)) ELSE s

\* str.strip()
strip(s) == rstrip(lstrip(s))

\* s < t in Python's string order (by code point, a proper prefix first)
RECURSIVE strLess(_, _)
strLess(s, t) ==
    IF t = <<>> THEN FALSE
    ELSE IF s = <<>> THEN TRUE
    ELSE IF ord(Head(s)) < ord(Head(t)) THEN TRUE
    ELSE IF ord(Head(s)) > ord(Head(t)) THEN FALSE
    ELSE strLess(Tail(s), Tail(t))

\* sorted(S) for a set of strings
RECURSIVE sorted(_)
sorted(S) ==
    IF S = {} THEN <<>>
    ELSE LET m == CHOOSE x \in S : \A y \in S \ {x} : strLess(x, y)
         IN  <<m>> \o sorted(S \ {m})

\* "".join(sorted(S)) for a set of characters
RECURSIVE sortedChars(_)
sortedChars(S) ==
    IF S = {} THEN <<>>
    ELSE LET m == CHOOSE x \in S : \A y \in S \ {x} : ord(x) < ord(y)
         IN  <<m>> \o sortedChars(S \ {m})

\* sep.join(parts)
RECURSIVE join(_, _)
join(sep, parts) ==
    IF parts = <<>> THEN <<>>
    ELSE IF Len(parts) = 1 THEN parts[1]
    ELSE parts[1] \o sep \o join(sep, Tail(parts))

\* str(n) for n >= 0
RECURSIVE str(_)
str(n) ==
    LET digit(d) == <<"0", "1", "2", "3", "4", "5", "6", "7", "8", "9">>[d + 1]
    IN  IF n < 10 THEN <<digit(n)>> ELSE str(n \div 10) \o <<digit(n % 10)>>

(***************************************************************************)
(* Module-level helpers of tb2fst.py                                       *)
(***************************************************************************)
\* the replacement table, in the order the dict literal stores it
SFST_REPLACEMENTS ==
    << <<"\\", <<"\\", "\\">> >>, <<"=", <<"\\", "=">> >>,
       <<"-", <<"\\", "-">> >>,   <<"|", <<"\\", "|">> >>,
       <<",", <<"\\", ",">> >>,   <<".", <<"\\", ".">> >>,
       <<"(", <<"\\", "(">> >>,   <<")", <<"\\", ")">> >>,
       <<":", <<"\\", ":">> >>,   <<"?", <<"\\", "?">> >>,
       <<"&", <<"\\", "&">> >>,   <<" ", <<"\\", " ">> >>,
       <<"*", <<"\\", "*">> >>,   <<"[", <<"\\", "[">> >>,
       <<"]", <<"\\", "]">> >>,   <<"!", <<"\\", "!">> >> >>

\* tgt.join(string.split(src)) for a one-character src
RECURSIVE replaceAll(_, _, _)
replaceAll(string, src, tgt) ==
    IF string = <<>> THEN <<>>
    ELSE (IF Head(string) = src THEN tgt ELSE <<Head(string)>>)
         \o replaceAll(Tail(string), src, tgt)

\* escape(): every replacement that applies, in the order of the table
RECURSIVE escapeFrom(_, _, _)
escapeFrom(string, replacements, i) ==
    IF i > Len(replacements) THEN string
    ELSE IF replacements[i][1] \in chars(string)
    THEN escapeFrom(replaceAll(string, replacements[i][1], replacements[i][2]),
                    replacements, i + 1)
    ELSE escapeFrom(string, replacements, i + 1)

escape(string, replacements) == escapeFrom(string, replacements, 1)

\* string.split(symbol) for a one-character symbol
RECURSIVE splitOn(_, _)
splitOn(string, symbol) ==
    IF symbol \notin chars(string) THEN <<string>>
    ELSE LET k == CHOOSE i \in 1..Len(string) :
                      string[i] = symbol /\ \A j \in 1..(i - 1) : string[j] # symbol
         IN  <<SubSeq(string, 1, k - 1)>>
             \o splitOn(SubSeq(string, k + 1, Len(string)), symbol)

\* one pass of split()'s outer loop: every string of base split on symbol
RECURSIVE splitAll(_, _)
splitAll(base, symbol) ==
    IF base = <<>> THEN <<>>
    ELSE splitOn(Head(base), symbol) \o splitAll(Tail(base), symbol)

RECURSIVE splitFrom(_, _, _)
splitFrom(base, splitter_symbols, i) ==
    IF i > Len(splitter_symbols) THEN base
    ELSE splitFrom(splitAll(base, splitter_symbols[i]), splitter_symbols, i + 1)

\* [ b.strip() for b in base if len(b.strip())>0 ]
RECURSIVE stripped(_)
stripped(base) ==
    IF base = <<>> THEN <<>>
    ELSE (IF Len(strip(Head(base))) > 0 THEN <<strip(Head(base))>> ELSE <<>>)
         \o stripped(Tail(base))

\* split()
split(string, splitter_symbols) ==
    stripped(splitFrom(<<string>>, splitter_symbols, 1))

(***************************************************************************)
(* The nested dict src -> tgt -> freq, in insertion order: a sequence of   *)
(* [src, tgts], tgts a sequence of [tgt, freq].                            *)
(***************************************************************************)
\* src in d
hasKey(d, src) == \E i \in 1..Len(d) : d[i].src = src

\* the position of key src
indexOf(d, src) == CHOOSE i \in 1..Len(d) : d[i].src = src

\* tgt in d[src]
hasTgt(tgts, tgt) == \E j \in 1..Len(tgts) : tgts[j].tgt = tgt

\* d[src][tgt], 0 for a missing entry
freqOf(d, src, tgt) ==
    IF \E i \in 1..Len(d) : d[i].src = src /\ hasTgt(d[i].tgts, tgt)
    THEN LET tgts == d[indexOf(d, src)].tgts
         IN  tgts[CHOOSE j \in 1..Len(tgts) : tgts[j].tgt = tgt].freq
    ELSE 0

\* the (src, tgt) entries of a dict
entries(d) ==
    UNION {{<<d[i].src, d[i].tgts[j].tgt>> : j \in 1..Len(d[i].tgts)} : i \in 1..Len(d)}

\* a variant of increment that stores n instead of adding it
incrementStore(d, src, tgt, n) ==
    LET d1   == IF hasKey(d, src) THEN d ELSE Append(d, [src |-> src, tgts |-> <<>>])
        i    == indexOf(d1, src)
        old  == d1[i].tgts
        tgts == IF hasTgt(old, tgt) THEN old ELSE Append(old, [tgt |-> tgt, freq |-> 0])
        j    == CHOOSE k \in 1..Len(tgts) : tgts[k].tgt = tgt
    IN  [d1 EXCEPT ![i].tgts = [tgts EXCEPT ![j].freq = n]]

\* if not src in d: d[src]={} ; if not tgt in d[src]: d[src][tgt]=0 ;
\* d[src][tgt]+=n
increment(d, src, tgt, n) ==
    LET d1   == IF hasKey(d, src) THEN d ELSE Append(d, [src |-> src, tgts |-> <<>>])
        i    == indexOf(d1, src)
        old  == d1[i].tgts
        tgts == IF hasTgt(old, tgt) THEN old ELSE Append(old, [tgt |-> tgt, freq |-> 0])
        j    == CHOOSE k \in 1..Len(tgts) : tgts[k].tgt = tgt
    IN  [d1 EXCEPT ![i].tgts = [tgts EXCEPT ![j].freq = @ + n]]

(***************************************************************************)
(* FSTGenerator.sfst, written to an output stream                          *)
(***************************************************************************)
max(a, b) == IF a > b THEN a ELSE b

min(a, b) == IF a < b THEN a ELSE b

\* while(start<len(src) and start<len(tgt) and src[start]==tgt[start]): start+=1
RECURSIVE scanStart(_, _, _)
scanStart(src, tgt, start) ==
    IF start < Len(src) /\ start < Len(tgt) /\ src[start + 1] = tgt[start + 1]
    THEN scanStart(src, tgt, start + 1)
    ELSE start

\* while(-end <len(src) and -end <len(tgt) and src[end]==tgt[end]): end-=1
RECURSIVE scanEnd(_, _, _)
scanEnd(src, tgt, end) ==
    IF -end < Len(src) /\ -end < Len(tgt)
       /\ src[Len(src) + end + 1] = tgt[Len(tgt) + end + 1]
    THEN scanEnd(src, tgt, end - 1)
    ELSE end

\* string[max(0,start-w):min(len(string),len(string)+1+end+w)].strip()
core(string, start, end, reduction_window) ==
    strip(slice(string, max(0, start - reduction_window),
                min(Len(string), Len(string) + 1 + end + reduction_window)))

\* the inner loop of the reduction, over the targets of one source in
\* insertion order; the variable src keeps the value the body assigns to it
RECURSIVE reduceTgts(_, _, _, _, _, _)
reduceTgts(src, tgts, j, reduced, ignore_case, reduction_window) ==
    IF j > Len(tgts) THEN reduced
    ELSE LET freq  == tgts[j].freq
             src1  == IF ignore_case THEN lower(src) ELSE src
             tgt1  == IF ignore_case THEN lower(tgts[j].tgt) ELSE tgts[j].tgt
             start == scanStart(src1, tgt1, 0)
             end   == scanEnd(src1, tgt1, -1)
             src2  == core(src1, start, end, reduction_window)
             tgt2  == core(tgt1, start, end, reduction_window)
         IN  IF src1 # tgt1
             THEN reduceTgts(src2, tgts, j + 1,
                             IF src2 # <<>> /\ tgt2 # <<>>
                               THEN increment(reduced, src2, tgt2, freq)
                               ELSE reduced,
                             ignore_case, reduction_window)
             ELSE reduceTgts(src1, tgts, j + 1, reduced, ignore_case, reduction_window)

\* the outer loop of the reduction, over the sources in insertion order
RECURSIVE reduceSrcs(_, _, _, _, _)
reduceSrcs(d, i, reduced, ignore_case, reduction_window) ==
    IF i > Len(d) THEN reduced
    ELSE reduceSrcs(d, i + 1,
                    reduceTgts(d[i].src, d[i].tgts, 1, reduced,
                               ignore_case, reduction_window),
                    ignore_case, reduction_window)

\* salph after the reduction loop: every character of every original source
reductionSalph(d) == UNION {chars(d[i].src) : i \in 1..Len(d)}

\* a variant of reductionTalph that leaves the original targets out
reductionTalphNone(d) == {}

\* talph after the reduction loop: every character of every original target
reductionTalph(d) == UNION {chars(e[2]) : e \in entries(d)}

\* the table the rules are read from: self.src2tgt2freq, or its reduction
selectTable(d, ignore_case, reduction_window) ==
    IF reduction_window >= 0
    THEN reduceSrcs(d, 1, <<>>, ignore_case, reduction_window)
    ELSE d

\* sorted(d[src].items())
sortedItems(tgts) ==
    LET order == sorted({tgts[j].tgt : j \in 1..Len(tgts)})
    IN  [k \in 1..Len(order) |->
           tgts[CHOOSE j \in 1..Len(tgts) : tgts[j].tgt = order[k]]]

\* "{"+src+"}:{"+tgt+"} % freq "+str(freq)
rule(src, tgt, freq) ==
    <<"{">> \o src \o <<"}:{">> \o tgt \o <<"} % freq ">> \o str(freq)

\* a variant of passesCutoff with an inclusive cutoff
passesCutoffInclusive(freq, freq_cutoff) == freq >= freq_cutoff

\* if freq>freq_cutoff
passesCutoff(freq, freq_cutoff) == freq > freq_cutoff

\* if not "\\" in src
passesGuard(src) == "\\" \notin chars(src)

\* not skip_identicals or (not ignore_case and src!=tgt)
\*   or (ignore_case and src.lower()!=tgt.lower())
passesIdentity(src, tgt, ignore_case, skip_identicals) ==
    \/ ~skip_identicals
    \/ (~ignore_case /\ src # tgt)
    \/ (ignore_case /\ lower(src) # lower(tgt))

\* the inner emission loop, over sorted(d[src].items()); the variable src
\* keeps the escaped value the body assigns to it.  acc = [vals, talph]
RECURSIVE emitTgts(_, _, _, _, _, _, _)
emitTgts(src, items, j, acc, freq_cutoff, ignore_case, skip_identicals) ==
    IF j > Len(items) THEN acc
    ELSE LET freq == items[j].freq
             src1 == escape(src, SFST_REPLACEMENTS)
             tgt1 == escape(items[j].tgt, SFST_REPLACEMENTS)
         IN  IF passesCutoff(freq, freq_cutoff)
             THEN emitTgts(src1, items, j + 1,
                    [vals  |-> IF passesGuard(src1)
                                  /\ passesIdentity(src1, tgt1, ignore_case, skip_identicals)
                               THEN Append(acc.vals, rule(src1, tgt1, freq))
                               ELSE acc.vals,
                     talph |-> acc.talph \cup chars(items[j].tgt)],
                    freq_cutoff, ignore_case, skip_identicals)
             ELSE emitTgts(src, items, j + 1, acc,
                           freq_cutoff, ignore_case, skip_identicals)

\* the outer emission loop, over sorted(d).  acc = [vals, salph, talph]
RECURSIVE emitSrcs(_, _, _, _, _, _, _)
emitSrcs(d, order, i, acc, freq_cutoff, ignore_case, skip_identicals) ==
    IF i > Len(order) THEN acc
    ELSE LET src   == order[i]
             inner == emitTgts(src, sortedItems(d[indexOf(d, src)].tgts), 1,
                               [vals |-> acc.vals, talph |-> acc.talph],
                               freq_cutoff, ignore_case, skip_identicals)
         IN  emitSrcs(d, order, i + 1,
                      [vals  |-> inner.vals,
                       salph |-> acc.salph \cup chars(src),
                       talph |-> inner.talph],
                      freq_cutoff, ignore_case, skip_identicals)

\* name=re.sub(r"[^A-Z0-9_]","",(self.source+"_to_"+self.target).upper())
\* framed by "$", for the markers \tx and \lm
name == "$TX_TO_LM$"

\* if "-" in alph: alph="".join(alph.split("-"))+"-"
hyphenLast(alph) ==
    IF "-" \in chars(alph) THEN replaceAll(alph, "-", <<>>) \o <<"-">> ELSE alph

\* "".join(sorted(set(cased_chars))), the lower-cased characters of alph
\* whose lower and upper case differ
casedChars(alph) ==
    sortedChars({lowerChar(c) : c \in {x \in alph : lowerChar(x) # upperChar(x)}})

\* "["+cased.lower()+cased.upper()+"]:["+cased.upper()+cased.lower()+"]"
caseRule(alph, ignore_case) ==
    LET cased == casedChars(alph)
    IN  IF ignore_case
        THEN <<"[">> \o lower(cased) \o upper(cased) \o <<"]:[">>
             \o upper(cased) \o lower(cased) \o <<"]">>
        ELSE <<>>

\* the text of output.write(...)
grammar(salph, talph, case_rule, vals, ident_rule) ==
    <<"\n#SALPH#=">> \o escape(salph, SFST_REPLACEMENTS)
    \o <<"\n\n#TALPH#=">> \o escape(talph, SFST_REPLACEMENTS)
    \o <<"\n\nALPHABET=[#SALPH#] [#TALPH#] ">> \o case_rule
    \o <<"\n\n", name, "=">> \o join(<<" \\\n\t| ">>, vals)
    \o <<"\n\n.+ || [#SALPH#]+ || ", name, " ">> \o ident_rule
    \o <<" || [#TALPH#]+\n">>

\* a variant of emptyGrammar that never raises
emptyGrammarNever(vals) == FALSE

\* if len(vals)==0: raise Exception(...)
emptyGrammar(vals) == Len(vals) = 0

\* sfst() on an output stream.  raised: the empty-grammar exception;
\* written: what the call wrote to the stream
sfstStream(d, freq_cutoff, ignore_case, skip_identicals, reduction_window) ==
    LET selected == selectTable(d, ignore_case, reduction_window)
        salph0   == IF reduction_window >= 0 THEN reductionSalph(d) ELSE {}
        talph0   == IF reduction_window >= 0 THEN reductionTalph(d) ELSE {}
        acc      == emitSrcs(selected, sorted({selected[i].src : i \in 1..Len(selected)}), 1,
                             [vals |-> <<>>, salph |-> salph0, talph |-> talph0],
                             freq_cutoff, ignore_case, skip_identicals)
        salph    == hyphenLast(sortedChars(acc.salph))
        talph    == hyphenLast(sortedChars(acc.talph))
        written  == grammar(salph, talph,
                            caseRule(acc.salph \cup acc.talph, ignore_case),
                            acc.vals,
                            IF skip_identicals THEN <<"| .*">> ELSE <<>>)
    IN  IF emptyGrammar(acc.vals)
        THEN [raised |-> TRUE, written |-> <<>>, selected |-> selected,
              vals |-> <<>>, salph |-> <<>>, talph |-> <<>>]
        ELSE [raised |-> FALSE, written |-> written, selected |-> selected,
              vals |-> acc.vals, salph |-> salph, talph |-> talph]

\* sfst(): output=None and output a file name delegate to the call on a
\* stream, passing freq_cutoff and output only
sfst(d, output, freq_cutoff, ignore_case, skip_identicals, reduction_window) ==
    IF output = "None"
    THEN sfstStream(d, freq_cutoff, TRUE, FALSE, -1)
    ELSE IF output = "str"
    THEN sfstStream(d, freq_cutoff, TRUE, FALSE, -1)
    ELSE sfstStream(d, freq_cutoff, ignore_case, skip_identicals, reduction_window)

(***************************************************************************)
(* FSTGenerator.add                                                        *)
(***************************************************************************)
\* the default segment_separator of __init__
segment_separator == <<" ">>

\* the default splitter of add()
splitter == <<>>

\* for tgt in split(tgt,splitter): ... self.src2tgt2freq[src][tgt]+=1
RECURSIVE addReadings(_, _, _, _)
addReadings(d, src, readings, k) ==
    IF k > Len(readings) THEN d
    ELSE addReadings(increment(d, src, readings[k], 1), src, readings, k + 1)

\* for src,tgt in mkr2span[self.target]: tgt=self.segment_separator.join(tgt) ...
RECURSIVE addSpans(_, _, _)
addSpans(d, spans, k) ==
    IF k > Len(spans) THEN d
    ELSE addSpans(addReadings(d, spans[k].src,
                              split(join(segment_separator, spans[k].tgt), splitter), 1),
                  spans, k + 1)

\* a variant of addRecord that counts the spans of a record before the
\* aligner's error is raised
addRecordPartial(d, record) ==
    IF record.kind = "unaligned" THEN [table |-> d, raised |-> FALSE]
    ELSE [table |-> addSpans(d, record.spans, 1), raised |-> FALSE]

\* the body of the record loop.  align_fields raises ToolboxAlignmentError
\* for an "error" record while mkr2span is built, and the except clause
\* catches it; an "unaligned" record lacks a marker (len(mkr2span) != 2)
addRecord(d, record) ==
    IF record.kind = "error" THEN [table |-> d, raised |-> FALSE]
    ELSE IF record.kind = "aligned"
    THEN [table |-> addSpans(d, record.spans, 1), raised |-> FALSE]
    ELSE [table |-> d, raised |-> FALSE]

\* for (meta,record) in toolbox.records(raw,self.record_keys): an exception
\* that leaves the loop body ends the loop
RECURSIVE addStream(_, _, _)
addStream(acc, records, k) ==
    IF acc.raised \/ k > Len(records) THEN acc
    ELSE addStream(addRecord(acc.table, records[k]), records, k + 1)

\* for i in input: self.add(i,splitter=splitter)
RECURSIVE addList(_, _, _)
addList(acc, input, k) ==
    IF acc.raised \/ k > Len(input) THEN acc
    ELSE addList(addStream(acc, input[k], 1), input, k + 1)

\* add() on a list of streams
add(d, input) == addList([table |-> d, raised |-> FALSE], input, 1)

(***************************************************************************)
(* Inputs                                                                  *)
(***************************************************************************)
\* aligned (source token, target segments) spans the aligner returns
Span1 == [src |-> <<"A", "b">>, tgt |-> << <<"a", "b">> >>]

Span2 == [src |-> <<"A", "b">>, tgt |-> << <<"a">>, <<"d">> >>]

Span3 == [src |-> <<"a", "-">>, tgt |-> << <<"a", "-", "-">> >>]

\* the records toolbox.records yields
Records ==
    { [kind |-> "aligned",   spans |-> <<Span1>>],
      [kind |-> "aligned",   spans |-> <<Span2, Span3>>],
      [kind |-> "error",     spans |-> <<Span2, Span1>>],
      [kind |-> "unaligned", spans |-> <<>>] }

\* the record sequences of one input stream
Streams == {<<>>} \cup {<<r>> : r \in Records} \cup {<<r, q>> : r \in Records, q \in Records}

\* the lists add() is called with
Inputs == {<<s>> : s \in Streams} \cup {<<s, <<r>> >> : s \in Streams, r \in Records}

\* the (source, target) pairs a table of the model may hold
Pairs ==
    { << <<"A", "b">>, <<"a", "b">> >>,
      << <<"A", "b">>, <<"a", " ", "d">> >>,
      << <<"a", "-">>, <<"a", "-", "-">> >> }

\* the output argument of sfst(): None, a file name, a stream
Outputs == {"None", "str", "stream"}

\* the keyword arguments of sfst()
Args ==
    [freq_cutoff : 0..MaxCutoff, ignore_case : BOOLEAN,
     skip_identicals : BOOLEAN, reduction_window : (-1)..MaxWindow]

(***************************************************************************)
(* State                                                                   *)
(***************************************************************************)
VARIABLES
    src2tgt2freq,   \* self.src2tgt2freq
    args,           \* the options of the run, which every sfst() call is given:
                    \* freq_cutoff, ignore_case, skip_identicals, reduction_window
    op,             \* the last operation: "init", "add" or "sfst"
    ret,            \* the outcome of the last call.  After add(): raised, and
                    \* the history flags skipped and resumed.  After sfst():
                    \* output (the argument), raised, written (the text put on
                    \* the stream of that call), and the call's locals selected
                    \* (the table the rules were read from), vals, salph, talph
    observed        \* history: how often add() has observed each pair

vars == <<src2tgt2freq, args, op, ret, observed>>

\* the observations of one record: none unless the aligner aligned it
RECURSIVE observations(_, _, _)
observations(spans, k, pair) ==
    IF k > Len(spans) THEN 0
    ELSE (IF <<spans[k].src, join(segment_separator, spans[k].tgt)>> = pair THEN 1 ELSE 0)
         + observations(spans, k + 1, pair)

RECURSIVE observedInStream(_, _, _)
observedInStream(records, k, pair) ==
    IF k > Len(records) THEN 0
    ELSE (IF records[k].kind = "aligned" THEN observations(records[k].spans, 1, pair) ELSE 0)
         + observedInStream(records, k + 1, pair)

RECURSIVE observedIn(_, _, _)
observedIn(input, k, pair) ==
    IF k > Len(input) THEN 0
    ELSE observedInStream(input[k], 1, pair) + observedIn(input, k + 1, pair)

\* history: the input holds an error record
skips(input) ==
    \E k \in 1..Len(input) : \E i \in 1..Len(input[k]) : input[k][i].kind = "error"

\* history: the input holds an error record, a later record of the same
\* stream that is aligned, and a later stream with an aligned record
resumes(input) ==
    \E k \in 1..Len(input) : \E i \in 1..Len(input[k]) :
        /\ input[k][i].kind = "error"
        /\ \E j \in (i + 1)..Len(input[k]) : input[k][j].kind = "aligned"
        /\ \E l \in (k + 1)..Len(input) : \E j \in 1..Len(input[l]) :
              input[l][j].kind = "aligned"

Init ==
    /\ src2tgt2freq = <<>>
    /\ args \in Args
    /\ op = "init"
    /\ ret = [raised |-> FALSE]
    /\ observed = [p \in Pairs |-> 0]

Add(input) ==
    LET r == add(src2tgt2freq, input)
    IN  /\ \A e \in entries(r.table) : freqOf(r.table, e[1], e[2]) <= MaxFreq
        /\ src2tgt2freq' = r.table
        /\ op' = "add"
        /\ ret' = [raised |-> r.raised, skipped |-> skips(input),
                   resumed |-> resumes(input)]
        /\ observed' = [p \in Pairs |-> observed[p] + observedIn(input, 1, p)]
        /\ UNCHANGED args

Sfst(output) ==
    /\ op' = "sfst"
    /\ ret' = [output |-> output]
              @@ sfst(src2tgt2freq, output, args.freq_cutoff, args.ignore_case,
                      args.skip_identicals, args.reduction_window)
    /\ UNCHANGED <<src2tgt2freq, args, observed>>

Next ==
    \/ \E input \in Inputs : Add(input)
    \/ \E output \in Outputs : Sfst(output)

Spec == Init /\ [][Next]_vars

(***************************************************************************)
(* sfst() as a function of the table: every table add() can have built     *)
(* over Pairs, in every insertion order, with counts 1..MaxFreq            *)
(***************************************************************************)
\* the orders in which the elements of S can have been inserted
orders(S) ==
    {o \in [1..Cardinality(S) -> S] : \A i, j \in 1..Cardinality(S) : i # j => o[i] # o[j]}

\* the inner dicts d[src] can be
tgtDicts(src) ==
    UNION {{[j \in 1..Len(o) |-> [tgt |-> o[j], freq |-> f[j]]] :
              f \in [1..Len(o) -> 1..MaxFreq]} :
           o \in UNION {orders(T) : T \in (SUBSET {p[2] : p \in {q \in Pairs : q[1] = src}}) \ {{}}}}

\* the tables self.src2tgt2freq can be
Tables ==
    LET sources == {p[1] : p \in Pairs}
        inner   == UNION {tgtDicts(src) : src \in sources}
    IN  UNION {{[i \in 1..Len(o) |-> [src |-> o[i], tgts |-> g[i]]] :
                  g \in {h \in [1..Len(o) -> inner] : \A i \in 1..Len(o) : h[i] \in tgtDicts(o[i])}} :
               o \in UNION {orders(S) : S \in SUBSET sources}}

InitCompile ==
    /\ src2tgt2freq \in Tables
    /\ args \in Args
    /\ op = "init"
    /\ ret = [raised |-> FALSE]
    /\ observed = [p \in Pairs |-> freqOf(src2tgt2freq, p[1], p[2])]

NextCompile == \E output \in Outputs : Sfst(output)

SpecCompile == InitCompile /\ [][NextCompile]_vars

(***************************************************************************)
(* Properties                                                              *)
(***************************************************************************)
\* the count of entry e = <<src, tgt>> of dict d
count(d, e) == freqOf(d, e[1], e[2])

\* the characters the replacement table escapes
reserved == {SFST_REPLACEMENTS[i][1] : i \in 1..Len(SFST_REPLACEMENTS)}

\* v starts with prefix
startsWith(v, prefix) ==
    Len(v) >= Len(prefix) /\ SubSeq(v, 1, Len(prefix)) = prefix

\* the rule text of entry e with count n, both tokens escaped
ruleOf(e, n) ==
    rule(escape(e[1], SFST_REPLACEMENTS), escape(e[2], SFST_REPLACEMENTS), n)

\* the rule text of entry e up to its count
rulePrefix(e) ==
    <<"{">> \o escape(e[1], SFST_REPLACEMENTS) \o <<"}:{">>
    \o escape(e[2], SFST_REPLACEMENTS) \o <<"} % freq ">>

\* entry e is one the identity filter removes under the options of args
identical(e) ==
    /\ args.skip_identicals
    /\ IF args.ignore_case THEN lower(e[1]) = lower(e[2]) ELSE e[1] = e[2]

\* C1: in every step of add() and sfst() (no splitter symbols), the count
\* stored for every (source, target) pair equals the number of times the
\* pair was observed so far, the table holds no other entry, no count
\* decreases, and sfst() leaves the table as it was.
C1_CountsEqualObservations ==
    [][ /\ \A p \in Pairs : count(src2tgt2freq', p) = observed'[p]
        /\ entries(src2tgt2freq') = {p \in Pairs : observed'[p] > 0}
        /\ \A p \in Pairs : count(src2tgt2freq', p) >= count(src2tgt2freq, p)
        /\ (op' = "sfst" => src2tgt2freq' = src2tgt2freq) ]_vars

\* C1 witness: sfst() with a reduction window has run on a table of two
\* sources in which a pair was observed twice.
C1_Witness ==
    /\ op = "sfst"
    /\ ret.output = "stream"
    /\ args.reduction_window >= 0
    /\ Len(src2tgt2freq) = 2
    /\ \E p \in Pairs : observed[p] = 2 /\ count(src2tgt2freq, p) = 2

\* C8: a call of add() whose input holds a record with an alignment error
\* returns normally, and changes the count of every pair by exactly the
\* number of its observations in the records that aligned: the error record
\* adds nothing and the records and inputs after it are counted.
C8_ErrorRecordSkipped ==
    [][ (op' = "add" /\ ret'.skipped)
          => /\ ~ret'.raised
             /\ \A p \in Pairs :
                  count(src2tgt2freq', p) - count(src2tgt2freq, p)
                    = observed'[p] - observed[p] ]_vars

\* C8 witness: add() has skipped an error record and counted a later record
\* of the same input and a record of a later input.
C8_Witness ==
    /\ op = "add"
    /\ ret.skipped
    /\ ret.resumed
    /\ ~ret.raised
    /\ \E p \in Pairs : count(src2tgt2freq, p) >= 2

\* tables t and u hold the same (source, target, count) entries
sameContent(t, u) ==
    /\ entries(t) = entries(u)
    /\ \A e \in entries(t) : count(t, e) = count(u, e)

\* C2: sfst() depends on the content of the table only: every table with
\* the same entries, whatever its insertion order, gives the same outcome
\* and byte-identical text under the same options.
C2_OrderIndependent ==
    op = "sfst" =>
        \A t \in Tables :
            sameContent(t, src2tgt2freq) =>
                LET r == sfst(t, ret.output, args.freq_cutoff, args.ignore_case,
                              args.skip_identicals, args.reduction_window)
                IN  r.raised = ret.raised /\ r.written = ret.written

\* the length of the longest common prefix of s and t
RECURSIVE commonPrefix(_, _)
commonPrefix(s, t) ==
    IF s # <<>> /\ t # <<>> /\ Head(s) = Head(t)
    THEN 1 + commonPrefix(Tail(s), Tail(t))
    ELSE 0

\* the length of the longest common suffix of s and t
RECURSIVE commonSuffix(_, _)
commonSuffix(s, t) ==
    IF s # <<>> /\ t # <<>> /\ s[Len(s)] = t[Len(t)]
    THEN 1 + commonSuffix(SubSeq(s, 1, Len(s) - 1), SubSeq(t, 1, Len(t) - 1))
    ELSE 0

\* the reduced pair C3 states for entry e: both cores taken from the
\* entry's own tokens
statedCore(e, ignore_case, w) ==
    LET s  == IF ignore_case THEN lower(e[1]) ELSE e[1]
        t  == IF ignore_case THEN lower(e[2]) ELSE e[2]
        p  == commonPrefix(s, t)
        q  == commonSuffix(s, t)
    IN  << strip(slice(s, max(0, p - w), max(0, Len(s) - q + w))),
           strip(slice(t, max(0, p - w), max(0, Len(t) - q + w))) >>

RECURSIVE sumCounts(_, _)
sumCounts(d, E) ==
    IF E = {} THEN 0
    ELSE LET e == CHOOSE x \in E : TRUE
         IN  count(d, e) + sumCounts(d, E \ {e})

\* C3: with reduction_window >= 0 the reduced table holds, for every pair
\* of cores, the sum of the counts of the entries whose own tokens reduce
\* to it, and nothing for an entry with an empty core.
C3_ReducedFromOwnTokens ==
    (op = "sfst" /\ ret.output = "stream" /\ args.reduction_window >= 0) =>
        LET core_of(e) == statedCore(e, args.ignore_case, args.reduction_window)
            kept == {e \in entries(src2tgt2freq) :
                       core_of(e)[1] # <<>> /\ core_of(e)[2] # <<>>}
        IN  /\ entries(ret.selected) = {core_of(e) : e \in kept}
            /\ \A c \in entries(ret.selected) :
                  count(ret.selected, c)
                    = sumCounts(src2tgt2freq, {e \in kept : core_of(e) = c})

\* C4: no entry of the selected table with count <= freq_cutoff is a rule
\* of the grammar, and every entry with count > freq_cutoff whose source
\* holds no escaped character and that the identity filter does not remove
\* is exactly one rule, annotated with its count.
C4_StrictCutoff ==
    op = "sfst" =>
        \A e \in entries(ret.selected) :
            LET n == count(ret.selected, e)
            IN  /\ n <= args.freq_cutoff =>
                      \A k \in 1..Len(ret.vals) : ~startsWith(ret.vals[k], rulePrefix(e))
                /\ (n > args.freq_cutoff /\ chars(e[1]) \cap reserved = {} /\ ~identical(e)) =>
                      Cardinality({k \in 1..Len(ret.vals) : ret.vals[k] = ruleOf(e, n)}) = 1

\* C4 witness: with freq_cutoff = 1 the grammar written to a stream holds
\* the rule of an entry counted twice and none for an entry counted once.
C4_Witness ==
    /\ op = "sfst"
    /\ ret.output = "stream"
    /\ ~ret.raised
    /\ args.freq_cutoff = 1
    /\ \E e \in entries(ret.selected) :
          /\ count(ret.selected, e) = 2
          /\ \E k \in 1..Len(ret.vals) : ret.vals[k] = ruleOf(e, 2)
    /\ \E e \in entries(ret.selected) :
          /\ count(ret.selected, e) = 1
          /\ chars(e[1]) \cap reserved = {}
          /\ \A k \in 1..Len(ret.vals) : ~startsWith(ret.vals[k], rulePrefix(e))

\* the entries of the selected table above the cutoff
aboveCutoff == {e \in entries(ret.selected) : count(ret.selected, e) > args.freq_cutoff}

\* the call reduced the table
reductionApplied == ret.output = "stream" /\ args.reduction_window >= 0

\* C5 as stated: the emitted alphabets are exactly the characters of the
\* sources, and of the targets, of the entries of the selected table with
\* count > freq_cutoff.
C5_AlphabetsOfSelectedAboveCutoff ==
    (op = "sfst" /\ ~ret.raised) =>
        /\ chars(ret.salph) = UNION {chars(e[1]) : e \in aboveCutoff}
        /\ chars(ret.talph) = UNION {chars(e[2]) : e \in aboveCutoff}

\* C5 amended: the source alphabet is the characters of every source of
\* the selected table, whatever its counts; the target alphabet is the
\* characters of the targets of the selected table with count >
\* freq_cutoff; and when the table was reduced, both also hold every
\* character of the original, unreduced tokens of the frequency table.
C5_AlphabetsAsEmitted ==
    (op = "sfst" /\ ~ret.raised) =>
        /\ chars(ret.salph) =
              UNION {chars(e[1]) : e \in entries(ret.selected)}
              \cup (IF reductionApplied
                    THEN UNION {chars(e[1]) : e \in entries(src2tgt2freq)} ELSE {})
        /\ chars(ret.talph) =
              UNION {chars(e[2]) : e \in aboveCutoff}
              \cup (IF reductionApplied
                    THEN UNION {chars(e[2]) : e \in entries(src2tgt2freq)} ELSE {})

\* C5 witness: a grammar of a reduced table whose alphabets hold a
\* character of an original token that no reduced token holds, and whose
\* source alphabet holds a character of a source at or below the cutoff.
C5_Witness ==
    /\ op = "sfst"
    /\ ~ret.raised
    /\ reductionApplied
    /\ \E c \in chars(ret.talph) :
          c \notin UNION {chars(e[2]) : e \in entries(ret.selected)}
    /\ \E c \in chars(ret.salph) :
          c \notin UNION {chars(e[1]) : e \in aboveCutoff}

\* C6: an entry with count > freq_cutoff whose source holds escaped
\* characters but no backslash, and that the identity filter does not
\* remove, is a rule of the grammar, with both tokens escaped.
C6_ReservedSourceEmitted ==
    op = "sfst" =>
        \A e \in aboveCutoff :
            (chars(e[1]) \cap reserved # {} /\ "\\" \notin chars(e[1]) /\ ~identical(e))
                => \E k \in 1..Len(ret.vals) :
                      ret.vals[k] = ruleOf(e, count(ret.selected, e))

\* C7: sfst() raises the empty-grammar error whenever no rule survives:
\* when every entry of the selected table is at or below freq_cutoff, and,
\* for a call on a stream, when every entry above it has an escaped
\* character in its source or is removed by the identity filter; and a
\* call that raises has written nothing.
C7_EmptyGrammarRaises ==
    op = "sfst" =>
        /\ aboveCutoff = {} => ret.raised
        /\ (ret.output = "stream"
            /\ \A e \in aboveCutoff : chars(e[1]) \cap reserved # {} \/ identical(e))
              => ret.raised
        /\ ret.raised => ret.written = <<>>

\* C7 witness: sfst() has raised on a table that holds entries, all of
\* them at or below the cutoff.
C7_Witness ==
    /\ op = "sfst"
    /\ ret.raised
    /\ ret.written = <<>>
    /\ entries(ret.selected) # {}
    /\ aboveCutoff = {}

\* C9: for every entry of distinct strings the reduction scans, the prefix
\* length and the suffix length it computes do not cross.
C9_PrefixSuffixDisjoint ==
    (op = "sfst" /\ reductionApplied) =>
        \A e \in entries(src2tgt2freq) :
            e[1] # e[2] =>
                scanStart(e[1], e[2], 0) + (-scanEnd(e[1], e[2], -1) - 1)
                    <= min(Len(e[1]), Len(e[2]))

\* C10: whatever the output argument, sfst() produces the outcome and the
\* text of the call on a stream with the same options.
C10_OutputModesAgree ==
    op = "sfst" =>
        LET r == sfstStream(src2tgt2freq, args.freq_cutoff, args.ignore_case,
                            args.skip_identicals, args.reduction_window)
        IN  ret.raised = r.raised /\ ret.written = r.written

=============================================================================
